---------------------------- MODULE Spec2Model ----------------------------
(***************************************************************************)
(* desk-inspector (src/dinspector.go): one run fetches the "web" service   *)
(* rows of a CouchDB view, runs scriptsPath/<subKind>.sh in the directory  *)
(* of each row's first included item, collects ItemVersion / ItemNotFound  *)
(* records and then either prints them (flag -n) or upserts them into the  *)
(* document "inspector-<hostname>".                                        *)
(*                                                                         *)
(* Text (Go strings) is a sequence of tokens: a token stands for one or    *)
(* more characters that the program never looks inside.  The separators    *)
(* the program does look for (" ", "\n", "|", "chdir") are tokens of their *)
(* own, so trimming, splitting and searching are computed, not assumed.    *)
(***************************************************************************)
EXTENDS Naturals, Sequences, FiniteSets

\* ------------------------------------------------------------------ bounds
\* Longest list of rows the view returns in one run.
MaxRows == 2
\* Number of runs of the program against the same store.
MaxRuns == 2

\* ------------------------------------------------------------- Go strings
Whitespace == {" ", "\n"}

RECURSIVE TrimLeft(_)
TrimLeft(s) ==
  IF s # <<>> /\ Head(s) \in Whitespace THEN TrimLeft(Tail(s)) ELSE s

RECURSIVE TrimRight(_)
TrimRight(s) ==
  IF s # <<>> /\ s[Len(s)] \in Whitespace
  THEN TrimRight(SubSeq(s, 1, Len(s) - 1))
  ELSE s

\* strings.TrimSpace: leading and trailing white space removed.
TrimSpace(s) == TrimRight(TrimLeft(s))

\* Position of the first token equal to sep, 0 when there is none.
RECURSIVE IndexFrom(_, _, _)
IndexFrom(s, sep, i) ==
  IF i > Len(s) THEN 0
  ELSE IF s[i] = sep THEN i
  ELSE IndexFrom(s, sep, i + 1)

\* strings.Split(s, sep): every piece between separators; a string without
\* separator (the empty one too) gives one piece.
RECURSIVE Split(_, _)
Split(s, sep) ==
  LET i == IndexFrom(s, sep, 1) IN
  IF i = 0 THEN << s >>
  ELSE << SubSeq(s, 1, i - 1) >> \o Split(SubSeq(s, i + 1, Len(s)), sep)

\* strings.Index(s, sub) >= 0
Contains(s, sub) ==
  \E i \in 1..(Len(s) + 1) :
     /\ i + Len(sub) - 1 <= Len(s)
     /\ SubSeq(s, i, i + Len(sub) - 1) = sub

\* ------------------------------------------------------------ environment
\* Configuration file: [inspector] scripts, [inspector_scripts] <subKind>.
ScriptsPathConf == << "/scripts" >>

ConfigTitle(subKind) ==
  IF subKind = << "nginx" >> THEN << " ", "NGINX Web Server" >> ELSE <<>>

Ids == {"svc1"}
SubKinds == { <<>>, << "nginx" >> }
\* itemSubLoc as stored in the view, before trimming.
SubLocs == { <<>>, << " ", "/var/www/site" >>, << "/var/www/empty" >>, << "/var/www/gone" >> }

\* The file system under the directories the items name; the empty path
\* does not open.
DirState(name) ==
  IF name = << "/var/www/site" >> THEN "nonempty"
  ELSE IF name = << "/var/www/empty" >> THEN "empty"
  ELSE "missing"

Included == [Itemid : Ids, ItemType : {"web"}, ItemSubType : SubKinds, ItemSubLoc : SubLocs]

\* A row of the view: the included_service_items of its value.  The program
\* reads only the first included item of a row, so a row carries one item or
\* none.
Rows == { <<>> } \cup { << i >> : i \in Included }

RECURSIVE SeqsUpTo(_, _)
SeqsUpTo(S, n) ==
  IF n = 0 THEN { <<>> }
  ELSE LET shorter == SeqsUpTo(S, n - 1) IN
       shorter \cup { Append(q, x) : q \in { r \in shorter : Len(r) = n - 1 }, x \in S }

\* What a version script may print.
Outputs == { << "1.2.3" >>,
             << " ", "1.2.3", "|", "pkgA=1,pkgB=2", "\n" >>,
             << "1.2.3", "|", "pkgA=1", "|", "pkgB=2" >> }

Hostnames == {"web1"}

AllScripts == { ScriptsPathConf \o << "/" >> \o k \o << ".sh" >> : k \in SubKinds }


\* ------------------------------------------------------------------ state
VARIABLES
  pc,               \* position of main: start, fetch, items, report, done, panicked
  runs,             \* runs of the program started so far
  isDryRunVerbose,  \* Inspector.isDryRunVerbose (flag -n)
  rows,             \* final.Rows as decoded from the view response
  idx,              \* index of the row the loop of processWebItems is at
  itemsVersion,     \* Inspector.itemsVersion
  itemsNotFound,    \* Inspector.itemsNotFound
  stdout,           \* lines written to standard output in this run
  executed,         \* scripts started in this run, with their working directory
  storeOps,         \* requests sent to the store in this run
  fetched,          \* how the view query of this run ended
  outcomes,         \* per processed row: whether its script was started, what
                    \* cmd.Output returned and how many records were appended
  store,            \* documents of the database
  view,             \* rows the view service_type holds for the key "web"
  scripts,          \* script files present in the scripts directory
  hostname          \* what os.Hostname reports on this host

vars == << pc, runs, isDryRunVerbose, rows, idx, itemsVersion, itemsNotFound,
           stdout, executed, storeOps, fetched, outcomes, store, view, scripts,
           hostname >>

procVars == << isDryRunVerbose, rows, idx, itemsVersion, itemsNotFound,
               stdout, executed, storeOps, fetched, outcomes >>

envVars == << view, scripts, hostname >>

\* ------------------------------------------------- helpers of the program
\* IsEmptyDir: (true, nil) only for a directory that opens and has no entry;
\* a path that does not open gives (false, err).
IsEmptyDir(name) ==
  IF DirState(name) = "missing" THEN [empty |-> FALSE, err |-> TRUE]
  ELSE IF DirState(name) = "empty" THEN [empty |-> TRUE, err |-> FALSE]
  ELSE [empty |-> FALSE, err |-> FALSE]

\* The item built from a row: its first included service item, subLoc trimmed.
ItemOf(row) ==
  [id      |-> row[1].Itemid,
   kind    |-> row[1].ItemType,
   subKind |-> row[1].ItemSubType,
   subLoc  |-> TrimSpace(row[1].ItemSubLoc)]

\* fmt.Sprint(inspector.scriptsPath, "/", item.subKind, ".sh")
ScriptPath(item) == ScriptsPathConf \o << "/" >> \o item.subKind \o << ".sh" >>

\* Variant: the result of os.Stat is not looked at.
ScriptExists_Always(item) == TRUE

\* !os.IsNotExist(err) of os.Stat(scriptPath)
ScriptExists(item) == ScriptPath(item) \in scripts

\* The condition under which checkWebVersion starts the script.
ShouldRun(item) ==
  ScriptExists(item) /\ ~IsEmptyDir(TrimSpace(item.subLoc)).empty

\* Errors of cmd.Output(), as fmt.Sprint prints them.
ChdirError(dir) == << "chdir", " " >> \o dir \o << ": no such file or directory" >>
ExitError == << "exit status 1" >>
ExecError(path) == << "fork/exec", " " >> \o path \o << ": permission denied" >>

\* What cmd.Output() can return for a script started in directory dir: the
\* start fails with a chdir error when dir is set and cannot be stat'ed;
\* otherwise the script prints something, exits non-zero or cannot be exec'ed.
RunResults(path, dir) ==
  IF dir # <<>> /\ DirState(dir) = "missing"
  THEN { [out |-> <<>>, err |-> ChdirError(dir)] }
  ELSE { [out |-> o, err |-> <<>>] : o \in Outputs }
       \cup { [out |-> <<>>, err |-> ExitError],
              [out |-> <<>>, err |-> ExecError(path)] }

\* Variant: the error text is searched for the empty string.
IsChdirError_Any(err) == Contains(err, <<>>)

\* strings.Index(fmt.Sprint(err), "chdir") >= 0
IsChdirError(err) == Contains(err, << "chdir" >>)

NewItemNotFound(item) ==
  [Domain |-> item.id, Kind |-> item.subKind, Path |-> item.subLoc]

\* PackagesVersions is set only when the split gives exactly two parts.
NewItemVersion(item, versionOutput) ==
  LET versionString == TrimSpace(versionOutput)
      versionParts == Split(versionString, "|")
  IN [Domain    |-> item.id,
      Kind      |-> item.subKind,
      KindTitle |-> TrimSpace(ConfigTitle(item.subKind)),
      Path      |-> item.subLoc,
      Version   |-> versionParts[1],
      PackagesVersions |-> IF Len(versionParts) = 2 THEN versionParts[2] ELSE <<>>]

DiagLine(item) == << "!chdir not found:" >> \o item.subLoc \o << "\n" >>

\* Variant: the diagnostic is printed in both modes.
Diagnostic_Always(item) == << DiagLine(item) >>

\* The diagnostic of a chdir failure is printed only with the flag -n.
Diagnostic(item) == IF isDryRunVerbose THEN << DiagLine(item) >> ELSE <<>>

\* Variant: a record equal to one already collected is dropped.
AppendRecord_Dedup(list, record) ==
  IF \E k \in 1..Len(list) : list[k] = record THEN list ELSE Append(list, record)

\* append(list, record)
AppendRecord(list, record) == Append(list, record)

\* One line pair of printWebVersions.
VersionLine(v) ==
  LET versions == IF v.PackagesVersions # <<>>
                  THEN v.Version \o << "; " >> \o v.PackagesVersions
                  ELSE v.Version
  IN << "- " >> \o << v.Domain >> \o << ":" >> \o v.Kind \o << " - " >>
       \o v.KindTitle \o << "\n  " >> \o versions \o << "\n" >>

\* Effect of checkWebVersion(item) when cmd.Output() returns res.
checkWebVersion(item, res) ==
  LET base == [itemsVersion |-> itemsVersion, itemsNotFound |-> itemsNotFound,
               stdout |-> stdout, executed |-> executed, panic |-> FALSE]
      ran == [base EXCEPT !.executed =
                Append(executed, [script |-> ScriptPath(item),
                                  dir |-> TrimSpace(item.subLoc)])]
  IN IF ~ShouldRun(item) THEN base
     ELSE IF res.err # <<>>
     THEN IF IsChdirError(res.err)
          THEN [ran EXCEPT
                  !.stdout = stdout \o Diagnostic(item),
                  !.itemsNotFound = AppendRecord(itemsNotFound, NewItemNotFound(item))]
          ELSE [ran EXCEPT !.panic = TRUE]
     ELSE [ran EXCEPT
             !.itemsVersion = AppendRecord(itemsVersion, NewItemVersion(item, res.out))]

\* "inspector-" + hostname
DocId(host) == << "inspector", "-", host >>

\* Variant: the not-found list is left out of the document.
ItemVersionDoc_NoNotFound(id, rev, host) ==
  [ID |-> id, Rev |-> rev, Hostname |-> host,
   DocType |-> "inspector", DocSubType |-> "web",
   Items |-> itemsVersion, ItemsNotFound |-> <<>>]

\* The document putItemVersionDoc builds from the lists of this run.
ItemVersionDoc(id, rev, host) ==
  [ID |-> id, Rev |-> rev, Hostname |-> host,
   DocType |-> "inspector", DocSubType |-> "web",
   Items |-> itemsVersion, ItemsNotFound |-> itemsNotFound]

\* ------------------------------------------------------------- the store
Stored(id) == { d \in store : d.ID = id }

\* The revision that follows rev ("" is no revision).
NextRev(rev) == IF rev = <<>> THEN << 1 >> ELSE << rev[1] + 1 >>

\* db.Put accepts a document whose _rev is the stored one (none for a new id).
PutAccepted(id, doc) ==
  IF Stored(id) = {} THEN doc.Rev = <<>>
  ELSE \E d \in Stored(id) : d.Rev = doc.Rev

AfterPut(id, doc) ==
  (store \ Stored(id)) \cup { [doc EXCEPT !.ID = id, !.Rev = NextRev(doc.Rev)] }

\* db.GetMeta: the stored revision, not-found, or another failure.
GetMetaResults(id) ==
  { [status |-> "error", rev |-> <<>>] }
  \cup IF Stored(id) = {} THEN { [status |-> "notfound", rev |-> <<>>] }
       ELSE { [status |-> "ok", rev |-> d.Rev] : d \in Stored(id) }

\* ---------------------------------------------------------------- actions
Init ==
  /\ pc = "start"
  /\ runs = 1
  /\ isDryRunVerbose = FALSE
  /\ rows = <<>>
  /\ idx = 1
  /\ itemsVersion = <<>>
  /\ itemsNotFound = <<>>
  /\ stdout = <<>>
  /\ executed = <<>>
  /\ storeOps = <<>>
  /\ fetched = "none"
  /\ outcomes = <<>>
  /\ store = {}
  /\ view \in SeqsUpTo(Rows, MaxRows)
  /\ scripts \in SUBSET AllScripts
  /\ hostname \in Hostnames

\* Inspector.Init: the flag -n is read; a configuration that does not load panics.
InspectorInit ==
  /\ pc = "start"
  /\ \E loaded \in BOOLEAN, n \in BOOLEAN :
       IF loaded
       THEN /\ isDryRunVerbose' = n
            /\ pc' = "fetch"
       ELSE /\ isDryRunVerbose' = isDryRunVerbose
            /\ pc' = "panicked"
  /\ UNCHANGED << runs, rows, idx, itemsVersion, itemsNotFound, stdout, executed,
                  storeOps, fetched, outcomes, store, envVars >>

\* How the GET of the view can end.
FetchResults == {"ok", "transport", "status", "undecodable"}

\* What json.Unmarshal leaves in final.Rows: the rows of a decoded view
\* response; nothing for an error body or a body that does not decode (the
\* error of Unmarshal is dropped and the HTTP status is not looked at).
DecodedRows(result) == IF result = "ok" THEN view ELSE <<>>

\* processWebItems up to its loop: only a transport error panics.
Fetch ==
  /\ pc = "fetch"
  /\ \E result \in FetchResults :
       /\ fetched' = result
       /\ IF result = "transport"
          THEN /\ rows' = rows
               /\ pc' = "panicked"
          ELSE /\ rows' = DecodedRows(result)
               /\ pc' = IF DecodedRows(result) = <<>> THEN "report" ELSE "items"
  /\ UNCHANGED << runs, isDryRunVerbose, idx, itemsVersion, itemsNotFound, stdout,
                  executed, storeOps, outcomes, store, envVars >>

\* One turn of the loop of processWebItems: a row without included items
\* panics (index out of range), any other row goes through checkWebVersion.
CheckItem ==
  /\ pc = "items"
  /\ idx <= Len(rows)
  /\ IF rows[idx] = <<>>
     THEN /\ pc' = "panicked"
          /\ outcomes' = Append(outcomes, [ran |-> FALSE, version |-> 0, notFound |-> 0,
                                           out |-> <<>>, err |-> <<>>])
          /\ UNCHANGED << idx, itemsVersion, itemsNotFound, stdout, executed >>
     ELSE LET item == ItemOf(rows[idx]) IN
          \E res \in RunResults(ScriptPath(item), TrimSpace(item.subLoc)) :
            LET after == checkWebVersion(item, res) IN
            /\ itemsVersion' = after.itemsVersion
            /\ itemsNotFound' = after.itemsNotFound
            /\ stdout' = after.stdout
            /\ executed' = after.executed
            /\ outcomes' = Append(outcomes,
                 [ran      |-> Len(after.executed) > Len(executed),
                  version  |-> Len(after.itemsVersion) - Len(itemsVersion),
                  notFound |-> Len(after.itemsNotFound) - Len(itemsNotFound),
                  out      |-> IF Len(after.executed) > Len(executed) THEN res.out ELSE <<>>,
                  err      |-> IF Len(after.executed) > Len(executed) THEN res.err ELSE <<>>])
            /\ IF after.panic
               THEN pc' = "panicked" /\ idx' = idx
               ELSE /\ idx' = idx + 1
                    /\ pc' = IF idx = Len(rows) THEN "report" ELSE "items"
  /\ UNCHANGED << runs, isDryRunVerbose, rows, storeOps, fetched, store, envVars >>

RECURSIVE VersionLines(_)
VersionLines(vs) ==
  IF vs = <<>> THEN <<>> ELSE << VersionLine(Head(vs)) >> \o VersionLines(Tail(vs))

\* main, flag -n set: printWebVersions.
printWebVersions ==
  /\ pc = "report"
  /\ isDryRunVerbose
  /\ stdout' = stdout \o VersionLines(itemsVersion)
  /\ pc' = "done"
  /\ UNCHANGED << runs, isDryRunVerbose, rows, idx, itemsVersion, itemsNotFound,
                  executed, storeOps, fetched, outcomes, store, envVars >>

GetMetaOp(id, meta) == [op |-> "GetMeta", id |-> id, rev |-> meta.rev, status |-> meta.status]

\* putItemVersionDoc: the document of this run under id with revision rev;
\* a Put the store refuses, or that does not get through, panics.
putItemVersionDoc(id, rev, host, arrives, ops) ==
  LET doc == ItemVersionDoc(id, rev, host)
      accepted == arrives /\ PutAccepted(id, doc)
  IN /\ storeOps' = Append(ops, [op |-> "Put", id |-> id, rev |-> doc.Rev,
                                  status |-> IF accepted THEN "ok" ELSE "error"])
     /\ store' = IF accepted THEN AfterPut(id, doc) ELSE store
     /\ pc' = IF accepted THEN "done" ELSE "panicked"

\* main, flag -n unset: saveWebVersions.
saveWebVersions ==
  /\ pc = "report"
  /\ ~isDryRunVerbose
  /\ \E named \in BOOLEAN, arrives \in BOOLEAN :
       IF ~named
       THEN /\ pc' = "panicked"
            /\ UNCHANGED << storeOps, store >>
       ELSE LET id == DocId(hostname) IN
            \E meta \in GetMetaResults(id) :
              LET ops == Append(storeOps, GetMetaOp(id, meta)) IN
              IF meta.status = "error"
              THEN /\ storeOps' = ops
                   /\ pc' = "panicked"
                   /\ store' = store
              ELSE IF meta.status = "notfound"
              THEN putItemVersionDoc(id, <<>>, hostname, arrives, ops)
              ELSE putItemVersionDoc(id, meta.rev, hostname, arrives, ops)
  /\ UNCHANGED << runs, isDryRunVerbose, rows, idx, itemsVersion, itemsNotFound,
                  stdout, executed, fetched, outcomes, envVars >>

\* The program is started again (a process of its own, same host and store).
Restart ==
  /\ pc \in {"done", "panicked"}
  /\ runs < MaxRuns
  /\ runs' = runs + 1
  /\ pc' = "start"
  /\ isDryRunVerbose' = FALSE
  /\ rows' = <<>>
  /\ idx' = 1
  /\ itemsVersion' = <<>>
  /\ itemsNotFound' = <<>>
  /\ stdout' = <<>>
  /\ executed' = <<>>
  /\ storeOps' = <<>>
  /\ fetched' = "none"
  /\ outcomes' = <<>>
  /\ UNCHANGED << store, envVars >>

Next ==
  \/ InspectorInit
  \/ Fetch
  \/ CheckItem
  \/ printWebVersions
  \/ saveWebVersions
  \/ Restart

Spec == Init /\ [][Next]_vars

\* ----------------------------------------------------------------- claims
\* The item of the i-th fetched row.
ItemAt(i) == ItemOf(rows[i])

\* Rows the loop has gone through in this run.
Processed == { i \in 1..Len(outcomes) : rows[i] # <<>> }

\* processWebItems has returned.
ItemsDone == pc \in {"report", "done"}

\* Records the processing of row i appended.
Produced(i) == outcomes[i].version + outcomes[i].notFound

\* The script file of row i is present in the scripts directory.
HasScript(i) == ScriptPath(ItemAt(i)) \in scripts

\* Row i names a subtype and a location.
Qualifies(i) == ItemAt(i).subKind # <<>> /\ ItemAt(i).subLoc # <<>>

\* C1: once processWebItems has returned, every row with subKind
\* and subLoc set and an existing script has produced exactly one record,
\* whatever the state of its directory, and the two lists hold one record
\* per such outcome.
C1_ExactlyOneOutcome ==
  ItemsDone =>
    /\ \A i \in Processed : (Qualifies(i) /\ HasScript(i)) => Produced(i) = 1
    /\ Len(itemsVersion) + Len(itemsNotFound)
         = Cardinality({ i \in Processed : Produced(i) = 1 })

\* What the code does instead: once processWebItems has returned, a row with
\* subKind and subLoc set and an existing script has produced exactly one
\* record (a version or a not-found, never both) when its directory is
\* missing or not empty, and none when its directory is present but empty;
\* no row produced more than one record and the two lists hold exactly the
\* records produced.
ExactlyOneUnlessEmpty ==
  ItemsDone =>
    /\ \A i \in Processed :
         (Qualifies(i) /\ HasScript(i)) =>
           IF DirState(ItemAt(i).subLoc) = "empty"
           THEN Produced(i) = 0 /\ ~outcomes[i].ran
           ELSE Produced(i) = 1 /\ outcomes[i].ran
    /\ \A i \in Processed : Produced(i) <= 1 /\ (Produced(i) = 1 <=> outcomes[i].ran)
    /\ Len(itemsVersion) = Cardinality({ i \in Processed : outcomes[i].version = 1 })
    /\ Len(itemsNotFound) = Cardinality({ i \in Processed : outcomes[i].notFound = 1 })

\* A run that went through an empty and a filled directory.
ExactlyOneUnlessEmpty_Reached ==
  /\ ItemsDone
  /\ \E i \in Processed :
       Qualifies(i) /\ HasScript(i) /\ DirState(ItemAt(i).subLoc) = "empty"
  /\ \E i \in Processed :
       Qualifies(i) /\ HasScript(i) /\ outcomes[i].version = 1

\* The current row, while the loop stands before it.
AtItem == pc = "items" /\ idx <= Len(rows) /\ rows[idx] # <<>>

\* C2: processing an item whose script exists and whose directory
\* is missing or empty appends exactly one not-found record with the item's
\* id, subKind and subLoc, and no version record.
C2_MissingOrEmptyNotFound ==
  [][ (/\ AtItem
       /\ HasScript(idx)
       /\ Qualifies(idx)
       /\ DirState(ItemAt(idx).subLoc) \in {"missing", "empty"})
      => /\ itemsNotFound' = Append(itemsNotFound,
                                [Domain |-> ItemAt(idx).id,
                                 Kind |-> ItemAt(idx).subKind,
                                 Path |-> ItemAt(idx).subLoc])
         /\ itemsVersion' = itemsVersion ]_vars

\* What the code does instead: for an item whose script exists, a missing
\* directory appends exactly one not-found record (Domain = id,
\* Kind = subKind, Path = subLoc) and no version record; a directory that is
\* present but empty appends nothing to either list and starts no script.
MissingNotFoundEmptySkipped ==
  [][ (AtItem /\ HasScript(idx) /\ ItemAt(idx).subLoc # <<>>)
      => /\ DirState(ItemAt(idx).subLoc) = "missing"
              => /\ itemsNotFound' = Append(itemsNotFound,
                                        [Domain |-> ItemAt(idx).id,
                                         Kind |-> ItemAt(idx).subKind,
                                         Path |-> ItemAt(idx).subLoc])
                 /\ itemsVersion' = itemsVersion
         /\ DirState(ItemAt(idx).subLoc) = "empty"
              => /\ itemsNotFound' = itemsNotFound
                 /\ itemsVersion' = itemsVersion
                 /\ executed' = executed ]_vars

\* Both cases were processed: a missing directory gave a not-found record,
\* an empty one gave nothing.
MissingNotFoundEmptySkipped_Reached ==
  /\ \E i \in Processed :
       /\ HasScript(i) /\ ItemAt(i).subKind # <<>>
       /\ DirState(ItemAt(i).subLoc) = "missing" /\ ItemAt(i).subLoc # <<>>
       /\ outcomes[i].notFound = 1
  /\ \E i \in Processed :
       /\ HasScript(i) /\ DirState(ItemAt(i).subLoc) = "empty"
       /\ Produced(i) = 0

\* C3: a fetched item whose subtype or (trimmed) sub-location is
\* empty starts no script and adds no record, also when a script for its
\* subtype exists.
C3_NoProbeWithoutSubKindOrSubLoc ==
  \A i \in Processed :
    (ItemAt(i).subKind = <<>> \/ ItemAt(i).subLoc = <<>>)
      => ~outcomes[i].ran /\ Produced(i) = 0

\* Requests of this run that wrote a document.
Puts == { k \in 1..Len(storeOps) : storeOps[k].op = "Put" /\ storeOps[k].status = "ok" }

\* C4: when the view query fails (transport error, error status,
\* undecodable body) the run aborts: no script is started and, without the
\* flag -n, no document is written to the store.
C4_FailedFetchAborts ==
  fetched \in {"transport", "status", "undecodable"} =>
    /\ executed = <<>>
    /\ ~isDryRunVerbose => Puts = {}

\* Row i's script was started and failed with an error that is no chdir error.
FailedOtherwise(i) ==
  outcomes[i].ran /\ outcomes[i].err # <<>> /\ Head(outcomes[i].err) # "chdir"

\* Row i's script was started and failed with an error whose text has no "chdir".
FailedWithoutChdirText(i) ==
  outcomes[i].ran /\ outcomes[i].err # <<>> /\ ~Contains(outcomes[i].err, << "chdir" >>)

\* The run stopped at row i: nothing after it was processed, the store was
\* not contacted.
AbortedAt(i) ==
  /\ pc = "panicked"
  /\ Len(outcomes) = i
  /\ idx = i
  /\ Len(executed) = Cardinality({ j \in 1..i : outcomes[j].ran })
  /\ storeOps = <<>>

\* C5 as stated: a script failing with another error than a chdir error
\* aborts the run at that item in either mode, with no later item probed, no
\* store request and no output at all (stated for rows that all name a
\* subtype and a location).
C5_AsStated ==
  \A i \in 1..Len(outcomes) :
    (FailedOtherwise(i) /\ \A j \in 1..i : rows[j] # <<>> /\ Qualifies(j))
      => AbortedAt(i) /\ stdout = <<>>

\* The chdir diagnostics of the not-found records collected so far.
DiagnosticsSoFar ==
  [ k \in 1..Len(itemsNotFound) |->
      << "!chdir not found:" >> \o itemsNotFound[k].Path \o << "\n" >> ]

\* C5 as amended: a script failing with an error whose text does not contain
\* "chdir" aborts the run at that item in either mode, with no later item
\* probed and no store request; no version line has been printed, and the
\* only output is, with the flag -n, the chdir diagnostics of earlier items
\* (none without the flag).
C5_AbortsWithDiagnosticsOnly ==
  \A i \in 1..Len(outcomes) :
    FailedWithoutChdirText(i) =>
      /\ AbortedAt(i)
      /\ stdout = IF isDryRunVerbose THEN DiagnosticsSoFar ELSE <<>>

\* A run with the flag -n that printed a diagnostic and then aborted on a
\* failing script.
C5_Witness ==
  /\ isDryRunVerbose
  /\ Len(outcomes) = 2
  /\ \A j \in 1..2 : rows[j] # <<>> /\ Qualifies(j)
  /\ outcomes[1].notFound = 1
  /\ FailedWithoutChdirText(2)
  /\ stdout # <<>>

\* Documents the store holds for a host.
DocsOf(host) == { d \in store : d.Hostname = host }

\* A run without the flag -n completes its upsert in this step.
Saves == pc = "report" /\ ~isDryRunVerbose /\ pc' = "done"

\* C6: over any sequence of runs without -n on a host the store holds at
\* most one result document of the host, under the id "inspector-" + hostname;
\* each write follows a metadata lookup and carries the revision it returned
\* (none when it reported not-found); after the write the document holds
\* exactly the lists of this run, and its revision has advanced by one, so a
\* run with the same lists as the one before changes the revision only.
C6_UpsertReplacesSingleDocument ==
  [][ /\ Cardinality(DocsOf(hostname)') <= 1
      /\ \A d \in DocsOf(hostname)' : d.ID = << "inspector", "-", hostname >>
      /\ Saves =>
           LET n == Len(storeOps') IN
           /\ n = 2
           /\ storeOps'[1].op = "GetMeta" /\ storeOps'[2].op = "Put"
           /\ storeOps'[1].id = << "inspector", "-", hostname >>
           /\ storeOps'[2].id = storeOps'[1].id
           /\ storeOps'[2].rev = storeOps'[1].rev
           /\ storeOps'[1].status = "notfound" <=> DocsOf(hostname) = {}
           /\ storeOps'[1].status = "notfound" => storeOps'[2].rev = <<>>
           /\ \A old \in DocsOf(hostname) : storeOps'[1].rev = old.Rev
           /\ \E d \in store' :
                /\ DocsOf(hostname)' = {d}
                /\ d.Items = itemsVersion
                /\ d.ItemsNotFound = itemsNotFound
                /\ d.DocType = "inspector" /\ d.DocSubType = "web"
                /\ IF DocsOf(hostname) = {}
                   THEN d.Rev = << 1 >>
                   ELSE \A old \in DocsOf(hostname) :
                          /\ d.Rev = << old.Rev[1] + 1 >>
                          /\ (old.Items = itemsVersion /\ old.ItemsNotFound = itemsNotFound)
                               => d = [old EXCEPT !.Rev = d.Rev] ]_vars

\* A second run has overwritten the document of the first with the same lists.
C6_Witness ==
  /\ runs = 2
  /\ pc = "done"
  /\ ~isDryRunVerbose
  /\ \E d \in store :
       /\ d.Rev = << 2 >>
       /\ d.Items # <<>>
       /\ d.ItemsNotFound # <<>>
       /\ d.Items = itemsVersion
       /\ d.Items[1].Kind # <<>>

\* C7: with the flag -n no request is ever sent to the store; without it
\* nothing is ever printed and a completed run has sent its upsert; no run
\* both prints and contacts the store.
C7_ModesExclusive ==
  /\ isDryRunVerbose => storeOps = <<>>
  /\ ~isDryRunVerbose => stdout = <<>>
  /\ (pc = "done" /\ ~isDryRunVerbose) => Puts # {}
  /\ ~(stdout # <<>> /\ storeOps # <<>>)

\* A run without -n that met a missing directory and completed its upsert.
C7_Witness ==
  /\ pc = "done"
  /\ ~isDryRunVerbose
  /\ itemsNotFound # <<>>
  /\ itemsNotFound[1].Kind # <<>>
  /\ Puts # {}
  /\ stdout = <<>>

\* The record of itemsVersion that row i appended.
VersionOf(i) == itemsVersion[Cardinality({ j \in 1..i : outcomes[j].version = 1 })]

\* The text before the first pipe, and the text after it (nothing when there
\* is no pipe).
BeforePipe(s) ==
  IF IndexFrom(s, "|", 1) = 0 THEN s ELSE SubSeq(s, 1, IndexFrom(s, "|", 1) - 1)

AfterPipe(s) ==
  IF IndexFrom(s, "|", 1) = 0 THEN <<>> ELSE SubSeq(s, IndexFrom(s, "|", 1) + 1, Len(s))

\* C8: the version record of a successful script holds, of the
\* trimmed output, the text before the first pipe as Version and the text
\* after the first pipe as PackagesVersions (unset without a pipe), also
\* when the output has two or more pipes (stated for items that name a
\* subtype and a location).
C8_SplitAtFirstPipe ==
  \A i \in 1..Len(outcomes) :
    (outcomes[i].version = 1 /\ Qualifies(i)) =>
      LET trimmed == TrimSpace(outcomes[i].out) IN
      /\ VersionOf(i).Version = BeforePipe(trimmed)
      /\ VersionOf(i).PackagesVersions = AfterPipe(trimmed)

\* C9: for an item whose script file does not exist, checkWebVersion starts
\* nothing and leaves both lists as they are, whatever its directory.
C9_NoScriptNoEffect ==
  [][ (AtItem /\ ScriptPath(ItemAt(idx)) \notin scripts)
      => /\ executed' = executed
         /\ itemsVersion' = itemsVersion
         /\ itemsNotFound' = itemsNotFound
         /\ stdout' = stdout ]_vars

\* Rows without script were processed for a filled and for a missing directory.
C9_Witness ==
  /\ Len(outcomes) = 2
  /\ \A i \in 1..2 : rows[i] # <<>> /\ ~HasScript(i) /\ ItemAt(i).subKind # <<>>
  /\ DirState(ItemAt(1).subLoc) = "nonempty"
  /\ DirState(ItemAt(2).subLoc) = "missing"
  /\ ItemsDone

\* Row n was classified found: its script ran and returned its output.
ClassifiedFound(n) == outcomes[n].ran /\ outcomes[n].err = <<>>

\* Row n was classified not found: its script could not enter the directory.
ClassifiedNotFound(n) ==
  outcomes[n].ran /\ outcomes[n].err # <<>> /\ Head(outcomes[n].err) = "chdir"

\* Rows among the first n classified found / not found, in fetch order.
RECURSIVE FoundRows(_)
FoundRows(n) ==
  IF n = 0 THEN <<>>
  ELSE FoundRows(n - 1) \o (IF ClassifiedFound(n) THEN << n >> ELSE <<>>)

RECURSIVE NotFoundRows(_)
NotFoundRows(n) ==
  IF n = 0 THEN <<>>
  ELSE NotFoundRows(n - 1) \o (IF ClassifiedNotFound(n) THEN << n >> ELSE <<>>)

RECURSIVE RanRows(_)
RanRows(n) ==
  IF n = 0 THEN <<>>
  ELSE RanRows(n - 1) \o (IF outcomes[n].ran THEN << n >> ELSE <<>>)

\* C10: rows are processed one at a time in fetch order, each script started
\* at most once per row, and records are only appended: at every moment
\* itemsVersion is the sequence of the processed rows classified found and
\* itemsNotFound that of the rows classified not found, both in fetch order,
\* a repeated row giving one record per occurrence.
C10_FetchOrderNoDedup ==
  LET n == Len(outcomes)
      found == FoundRows(n)
      missing == NotFoundRows(n)
      ran == RanRows(n)
  IN /\ n <= Len(rows)
     /\ pc = "items" => idx = n + 1
     /\ \A i \in 1..n : outcomes[i].version + outcomes[i].notFound <= 1
     /\ Len(itemsVersion) = Len(found)
     /\ \A k \in 1..Len(found) :
          /\ itemsVersion[k].Domain = ItemAt(found[k]).id
          /\ itemsVersion[k].Kind = ItemAt(found[k]).subKind
          /\ itemsVersion[k].Path = ItemAt(found[k]).subLoc
          /\ itemsVersion[k].Version = BeforePipe(TrimSpace(outcomes[found[k]].out))
     /\ Len(itemsNotFound) = Len(missing)
     /\ \A k \in 1..Len(missing) :
          /\ itemsNotFound[k].Domain = ItemAt(missing[k]).id
          /\ itemsNotFound[k].Kind = ItemAt(missing[k]).subKind
          /\ itemsNotFound[k].Path = ItemAt(missing[k]).subLoc
     /\ Len(executed) = Len(ran)
     /\ \A k \in 1..Len(ran) :
          /\ executed[k].script = ScriptPath(ItemAt(ran[k]))
          /\ executed[k].dir = ItemAt(ran[k]).subLoc

\* The same row fetched twice gave two equal version records.
C10_Witness ==
  /\ ItemsDone
  /\ Len(rows) = 2
  /\ rows[1] = rows[2]
  /\ Qualifies(1)
  /\ Len(itemsVersion) = 2
  /\ itemsVersion[1] = itemsVersion[2]

=============================================================================
